---- MODULE Spec2Model ----
(***************************************************************************)
(* LSPS1 service handler (src/lsps1/service.rs): the order state machine,  *)
(* the per-counterparty state store behind RwLock<HashMap<_, Mutex<_>>>,   *)
(* the message dispatch and the two business callbacks.                    *)
(*                                                                         *)
(* Spec      the handlers as atomic calls (one caller at a time)           *)
(* ConcSpec  the handlers as threads stepping through their lock points    *)
(* FairConcSpec  ConcSpec under a scheduler that runs every started call   *)
(***************************************************************************)
EXTENDS Integers, Sequences, FiniteSets, TLC

VARIABLES
    config,             \* LSPS1ServiceHandler.config
    per_peer_state,     \* HashMap<PublicKey, Mutex<PeerState>> (the data)
    pending_messages,   \* MessageQueue, oldest first
    pending_events,     \* EventQueue, oldest first
    rw_readers,         \* ConcSpec: threads holding per_peer_state.read()
    rw_writer,          \* ConcSpec: thread holding per_peer_state.write()
    mutex,              \* ConcSpec: holder of each counterparty's Mutex
    pc,                 \* ConcSpec: each thread's position
    call,               \* ConcSpec: each thread's current call
    local               \* ConcSpec: each thread's locals (result, scratch)

storeVars == <<config, per_peer_state, pending_messages, pending_events>>
threadVars == <<rw_readers, rw_writer, mutex, pc, call, local>>
vars == <<config, per_peer_state, pending_messages, pending_events,
          rw_readers, rw_writer, mutex, pc, call, local>>

(***************************************************************************)
(* Bounds and input sets                                                   *)
(***************************************************************************)
\* entries the two queues may hold together
MaxQueued == 4

\* Option<T>: None, Some(x)
None == <<>>
Some(x) == <<x>>
Unwrap(o) == o[1]
\* no thread, no call
NONE == "None"
Peers == {"c1", "c2"}
RequestIds == {"r1", "r2"}
\* the request ids each counterparty's client and its callbacks are called with
RequestIdsOf(c) == IF c = "c1" THEN RequestIds ELSE {"r1"}
OrderIds == {"o1", "o2"}
Payments == {"pay1"}
Timestamps == {"t0"}
\* (order_state, channel) pairs a caller of update_order_status supplies
StatusInputs == {<<"Paid", None>>, <<"Completed", Some("chan1")>>}

OptionsSupported == [min_channel_balance |-> 1, max_channel_balance |-> 2]
Website == "https://lsp.example"
\* OrderParams: two orders inside the supported range, one outside
OrderParamsSet == {[channel_balance |-> b] : b \in 1..(OptionsSupported.max_channel_balance + 1)}

LSPS1_CREATE_ORDER_REQUEST_ORDER_MISMATCH_ERROR_CODE == "ORDER_MISMATCH_ERROR_CODE"

\* utils::is_valid
is_valid(order, options_supported) ==
    /\ order.channel_balance >= options_supported.min_channel_balance
    /\ order.channel_balance <= options_supported.max_channel_balance

(***************************************************************************)
(* HashMap                                                                 *)
(***************************************************************************)
EmptyMap == <<>>
MapInsert(m, k, v) == [x \in DOMAIN m \cup {k} |-> IF x = k THEN v ELSE m[x]]
MapRemove(m, k) == [x \in DOMAIN m \ {k} |-> m[x]]
MapGet(m, k) == IF k \in DOMAIN m THEN Some(m[k]) ELSE None

(***************************************************************************)
(* OutboundRequestState, OutboundCRChannel, PeerState                      *)
(***************************************************************************)
OrderCreated(order_id) == [tag |-> "OrderCreated", order_id |-> order_id]
WaitingPayment(order_id) == [tag |-> "WaitingPayment", order_id |-> order_id]
Ready == [tag |-> "Ready"]

\* OutboundRequestState::awaiting_payment: Ok(new state) or Err
AwaitingPaymentAlwaysOk(state) ==
    [ok |-> TRUE, state |-> [tag |-> "WaitingPayment", order_id |-> state.order_id]]
AwaitingPaymentCycles(state) ==
    CASE state.tag = "OrderCreated" -> [ok |-> TRUE, state |-> WaitingPayment(state.order_id)]
      [] state.tag = "WaitingPayment" -> [ok |-> TRUE, state |-> OrderCreated(state.order_id)]
      [] OTHER -> [ok |-> FALSE, state |-> state]
AwaitingPaymentToReady(state) ==
    IF state.tag = "OrderCreated"
    THEN [ok |-> TRUE, state |-> Ready]
    ELSE [ok |-> FALSE, state |-> state]
StateAwaitingPayment(state) ==
    IF state.tag = "OrderCreated"
    THEN [ok |-> TRUE, state |-> WaitingPayment(state.order_id)]
    ELSE [ok |-> FALSE, state |-> state]

\* OutboundCRChannel::new
NewOutboundCRChannel(order, created_at, expires_at, order_id, payment) ==
    [state |-> OrderCreated(order_id),
     config |-> [order |-> order, created_at |-> created_at,
                 expires_at |-> expires_at, payment |-> payment]]

\* OutboundCRChannel::awaiting_payment: self.state = self.state.awaiting_payment()?
ChannelAwaitingPaymentNoAssign(channel) ==
    [ok |-> StateAwaitingPayment(channel.state).ok, channel |-> channel]
ChannelAwaitingPayment(channel) ==
    LET r == StateAwaitingPayment(channel.state)
    IN  IF r.ok THEN [ok |-> TRUE, channel |-> [channel EXCEPT !.state = r.state]]
        ELSE [ok |-> FALSE, channel |-> channel]

DefaultPeerState ==
    [outbound_channels_by_order_id |-> EmptyMap,
     request_to_cid |-> EmptyMap,
     pending_requests |-> EmptyMap]

insert_outbound_channel(peer, order_id, channel) ==
    [peer EXCEPT !.outbound_channels_by_order_id = MapInsert(@, order_id, channel)]

CreateOrderRequest(order) == [type |-> "CreateOrder", order |-> order]
GetOrderRequest(order_id) == [type |-> "GetOrder", order_id |-> order_id]
GetInfoRequest == [type |-> "GetInfo"]

(***************************************************************************)
(* Queues                                                                  *)
(***************************************************************************)
\* enqueue_response: pending_messages.enqueue(counterparty, Response(request_id, response))
EnqueueResponseMisaddressed(messages, counterparty_node_id, request_id, response) ==
    Append(messages, [counterparty_node_id |-> "c1",
                      request_id |-> request_id,
                      response |-> response])
enqueue_response(messages, counterparty_node_id, request_id, response) ==
    Append(messages, [counterparty_node_id |-> counterparty_node_id,
                      request_id |-> request_id,
                      response |-> response])

RequestForPaymentDetails(request_id, c, order) ==
    [type |-> "RequestForPaymentDetails", request_id |-> request_id,
     counterparty_node_id |-> c, order |-> order]
CheckPaymentConfirmation(request_id, c, order_id) ==
    [type |-> "CheckPaymentConfirmation", request_id |-> request_id,
     counterparty_node_id |-> c, order_id |-> order_id]
Refund(request_id, c, order_id) ==
    [type |-> "Refund", request_id |-> request_id,
     counterparty_node_id |-> c, order_id |-> order_id]

(***************************************************************************)
(* The handlers. w is the handler's view of the service:                   *)
(* [per_peer_state, pending_messages, pending_events]; each                *)
(* returns the view after the call together with ret, what the caller gets *)
(* back: "Ok", "LightningError", "APIMisuseError" or "Panic".              *)
(***************************************************************************)
World ==
    [per_peer_state |-> per_peer_state, pending_messages |-> pending_messages,
     pending_events |-> pending_events]

Out(w, ret) == [w |-> w, ret |-> ret]

handle_get_info_request(cfg, w, request_id, counterparty_node_id) ==
    IF cfg.website = None \/ cfg.options_supported = None
    THEN Out(w, "Panic")
    ELSE Out([w EXCEPT !.pending_messages =
                 enqueue_response(@, counterparty_node_id, request_id,
                     [type |-> "GetInfo", website |-> Unwrap(cfg.website),
                      options |-> Unwrap(cfg.options_supported)])],
             "Ok")

\* handle_create_order_request, lines 193-213: the check made before any lock
CreateOrderNeverInvalid(cfg, params) == FALSE
CreateOrderInvalid(cfg, params) == ~is_valid(params.order, Unwrap(cfg.options_supported))

CreateOrderErrorResponse(cfg) ==
    [type |-> "CreateOrderError",
     code |-> LSPS1_CREATE_ORDER_REQUEST_ORDER_MISMATCH_ERROR_CODE,
     data |-> Some(Unwrap(cfg.options_supported))]

\* handle_create_order_request, lines 217-219: entry(..).or_insert(..)
EntryOrInsert(peers, counterparty_node_id) ==
    IF counterparty_node_id \in DOMAIN peers THEN peers
    ELSE MapInsert(peers, counterparty_node_id, DefaultPeerState)

\* handle_create_order_request, lines 222-232: under both locks
CreateOrderLocked(peer, events, request_id, counterparty_node_id, params) ==
    [peer |-> [peer EXCEPT !.pending_requests =
                   MapInsert(@, request_id, CreateOrderRequest(params.order))],
     events |-> Append(events,
                   RequestForPaymentDetails(request_id, counterparty_node_id, params.order)),
     ret |-> "Ok"]

handle_create_order_request(cfg, w, request_id, counterparty_node_id, params) ==
    IF cfg.options_supported = None THEN Out(w, "Panic")
    ELSE IF CreateOrderInvalid(cfg, params)
    THEN Out([w EXCEPT !.pending_messages =
                 enqueue_response(@, counterparty_node_id, request_id,
                                  CreateOrderErrorResponse(cfg))],
             "LightningError")
    ELSE LET peers == EntryOrInsert(w.per_peer_state, counterparty_node_id)
             r == CreateOrderLocked(peers[counterparty_node_id], w.pending_events,
                                    request_id, counterparty_node_id, params)
         IN  Out([w EXCEPT !.per_peer_state =
                               [peers EXCEPT ![counterparty_node_id] = r.peer],
                           !.pending_events = r.events],
                 r.ret)

\* send_payment_details, lines 252-285: under the counterparty's lock.
\* order_id is what generate_order_id returned.
PaymentDetailsKeepsPending(peer, messages, request_id, counterparty_node_id, payment, created_at, expires_at, order_id) ==
    LET removed == MapGet(peer.pending_requests, request_id)
        params == Unwrap(removed)
    IN  IF removed # None /\ params.type = "CreateOrder"
        THEN [peer |-> insert_outbound_channel(peer, order_id,
                          NewOutboundCRChannel(params.order, created_at, expires_at,
                                               order_id, payment)),
              messages |-> enqueue_response(messages, counterparty_node_id, request_id,
                              [type |-> "CreateOrder", order |-> params.order,
                               order_id |-> order_id, order_state |-> "Created",
                               created_at |-> created_at, expires_at |-> expires_at,
                               payment |-> payment, channel |-> None]),
              ret |-> "Ok"]
        ELSE [peer |-> peer, messages |-> messages, ret |-> "APIMisuseError"]
PaymentDetailsLocked(peer, messages, request_id, counterparty_node_id, payment, created_at, expires_at, order_id) ==
    LET removed == MapGet(peer.pending_requests, request_id)
        peer1 == [peer EXCEPT !.pending_requests = MapRemove(@, request_id)]
        params == Unwrap(removed)
    IN  IF removed # None /\ params.type = "CreateOrder"
        THEN [peer |-> insert_outbound_channel(peer1, order_id,
                          NewOutboundCRChannel(params.order, created_at, expires_at,
                                               order_id, payment)),
              messages |-> enqueue_response(messages, counterparty_node_id, request_id,
                              [type |-> "CreateOrder", order |-> params.order,
                               order_id |-> order_id, order_state |-> "Created",
                               created_at |-> created_at, expires_at |-> expires_at,
                               payment |-> payment, channel |-> None]),
              ret |-> "Ok"]
        ELSE [peer |-> peer1, messages |-> messages, ret |-> "APIMisuseError"]

send_payment_details(w, request_id, counterparty_node_id, payment, created_at, expires_at, order_id) ==
    IF counterparty_node_id \notin DOMAIN w.per_peer_state
    THEN Out(w, "APIMisuseError")
    ELSE LET r == PaymentDetailsLocked(w.per_peer_state[counterparty_node_id],
                      w.pending_messages, request_id, counterparty_node_id,
                      payment, created_at, expires_at, order_id)
         IN  Out([w EXCEPT !.per_peer_state[counterparty_node_id] = r.peer,
                           !.pending_messages = r.messages],
                 r.ret)

\* handle_get_order_request, lines 319-339, given the record that
\* get_mut(&params.order_id) found (lines 308-317)
GetOrderCommitRemovesAlways(peer, events, request_id, counterparty_node_id, params, found) ==
    IF found = None
    THEN [peer |-> peer, events |-> events, ret |-> "LightningError"]
    ELSE LET r == ChannelAwaitingPayment(Unwrap(found))
         IN  IF ~r.ok
             THEN [peer |-> [peer EXCEPT !.outbound_channels_by_order_id =
                                 MapRemove(@, params.order_id)],
                   events |-> Append(events,
                                 Refund(request_id, counterparty_node_id, params.order_id)),
                   ret |-> "LightningError"]
             ELSE [peer |-> [peer EXCEPT
                                 !.outbound_channels_by_order_id =
                                     MapRemove(@, params.order_id),
                                 !.pending_requests =
                                     MapInsert(@, request_id, GetOrderRequest(params.order_id))],
                   events |-> Append(events,
                                 CheckPaymentConfirmation(request_id, counterparty_node_id,
                                                          params.order_id)),
                   ret |-> "Ok"]
GetOrderCommitRecordsUnknown(peer, events, request_id, counterparty_node_id, params, found) ==
    IF found = None
    THEN [peer |-> [peer EXCEPT !.pending_requests =
                        MapInsert(@, request_id, GetOrderRequest(params.order_id))],
          events |-> events, ret |-> "LightningError"]
    ELSE LET r == ChannelAwaitingPayment(Unwrap(found))
         IN  IF ~r.ok
             THEN [peer |-> [peer EXCEPT !.outbound_channels_by_order_id =
                                 MapRemove(@, params.order_id)],
                   events |-> Append(events,
                                 Refund(request_id, counterparty_node_id, params.order_id)),
                   ret |-> "LightningError"]
             ELSE [peer |-> [peer EXCEPT
                                 !.outbound_channels_by_order_id =
                                     MapInsert(@, params.order_id, r.channel),
                                 !.pending_requests =
                                     MapInsert(@, request_id, GetOrderRequest(params.order_id))],
                   events |-> Append(events,
                                 CheckPaymentConfirmation(request_id, counterparty_node_id,
                                                          params.order_id)),
                   ret |-> "Ok"]
GetOrderCommit(peer, events, request_id, counterparty_node_id, params, found) ==
    IF found = None
    THEN [peer |-> peer, events |-> events, ret |-> "LightningError"]
    ELSE LET r == ChannelAwaitingPayment(Unwrap(found))
         IN  IF ~r.ok
             THEN [peer |-> [peer EXCEPT !.outbound_channels_by_order_id =
                                 MapRemove(@, params.order_id)],
                   events |-> Append(events,
                                 Refund(request_id, counterparty_node_id, params.order_id)),
                   ret |-> "LightningError"]
             ELSE [peer |-> [peer EXCEPT
                                 !.outbound_channels_by_order_id =
                                     MapInsert(@, params.order_id, r.channel),
                                 !.pending_requests =
                                     MapInsert(@, request_id, GetOrderRequest(params.order_id))],
                   events |-> Append(events,
                                 CheckPaymentConfirmation(request_id, counterparty_node_id,
                                                          params.order_id)),
                   ret |-> "Ok"]

GetOrderLocked(peer, events, request_id, counterparty_node_id, params) ==
    GetOrderCommit(peer, events, request_id, counterparty_node_id, params,
                   MapGet(peer.outbound_channels_by_order_id, params.order_id))

handle_get_order_request(w, request_id, counterparty_node_id, params) ==
    IF counterparty_node_id \notin DOMAIN w.per_peer_state
    THEN Out(w, "LightningError")
    ELSE LET r == GetOrderLocked(w.per_peer_state[counterparty_node_id],
                      w.pending_events, request_id, counterparty_node_id, params)
         IN  Out([w EXCEPT !.per_peer_state[counterparty_node_id] = r.peer,
                           !.pending_events = r.events],
                 r.ret)

\* update_order_status, lines 370-392: under the counterparty's lock
OrderStatusRemovesOrder(peer, messages, request_id, counterparty_node_id, order_id, order_state, channel) ==
    LET found == MapGet(peer.outbound_channels_by_order_id, order_id)
        outbound_channel == Unwrap(found)
    IN  IF found # None
        THEN [peer |-> [peer EXCEPT !.outbound_channels_by_order_id = MapRemove(@, order_id)],
              messages |-> enqueue_response(messages, counterparty_node_id, request_id,
                              [type |-> "GetOrder", order |-> outbound_channel.config.order,
                               order_id |-> order_id, order_state |-> order_state,
                               created_at |-> outbound_channel.config.created_at,
                               expires_at |-> outbound_channel.config.expires_at,
                               payment |-> outbound_channel.config.payment, channel |-> channel]),
              ret |-> "Ok"]
        ELSE [peer |-> peer, messages |-> messages, ret |-> "APIMisuseError"]
OrderStatusMissingIsOk(peer, messages, request_id, counterparty_node_id, order_id, order_state, channel) ==
    LET found == MapGet(peer.outbound_channels_by_order_id, order_id)
        outbound_channel == Unwrap(found)
    IN  IF found # None
        THEN [peer |-> peer,
              messages |-> enqueue_response(messages, counterparty_node_id, request_id,
                              [type |-> "GetOrder", order |-> outbound_channel.config.order,
                               order_id |-> order_id, order_state |-> order_state,
                               created_at |-> outbound_channel.config.created_at,
                               expires_at |-> outbound_channel.config.expires_at,
                               payment |-> outbound_channel.config.payment, channel |-> channel]),
              ret |-> "Ok"]
        ELSE [peer |-> peer, messages |-> messages, ret |-> "Ok"]
OrderStatusLocked(peer, messages, request_id, counterparty_node_id, order_id, order_state, channel) ==
    LET found == MapGet(peer.outbound_channels_by_order_id, order_id)
        outbound_channel == Unwrap(found)
    IN  IF found # None
        THEN [peer |-> peer,
              messages |-> enqueue_response(messages, counterparty_node_id, request_id,
                              [type |-> "GetOrder", order |-> outbound_channel.config.order,
                               order_id |-> order_id, order_state |-> order_state,
                               created_at |-> outbound_channel.config.created_at,
                               expires_at |-> outbound_channel.config.expires_at,
                               payment |-> outbound_channel.config.payment, channel |-> channel]),
              ret |-> "Ok"]
        ELSE [peer |-> peer, messages |-> messages, ret |-> "APIMisuseError"]

update_order_status(w, request_id, counterparty_node_id, order_id, order_state, channel) ==
    IF counterparty_node_id \notin DOMAIN w.per_peer_state
    THEN Out(w, "APIMisuseError")
    ELSE LET r == OrderStatusLocked(w.per_peer_state[counterparty_node_id],
                      w.pending_messages, request_id, counterparty_node_id, order_id,
                      order_state, channel)
         IN  Out([w EXCEPT !.per_peer_state[counterparty_node_id] = r.peer,
                           !.pending_messages = r.messages],
                 r.ret)

\* handle_message: the outcomes the call can have. A Response message hits
\* debug_assert!(false): a panic in a build with debug assertions, the Err
\* of line 446 in one without.
HandleMessageAcceptsResponse(cfg, w, message, counterparty_node_id) ==
    IF message.kind = "Request"
    THEN CASE message.request.type = "GetInfo" ->
                {handle_get_info_request(cfg, w, message.request_id, counterparty_node_id)}
           [] message.request.type = "CreateOrder" ->
                {handle_create_order_request(cfg, w, message.request_id,
                                             counterparty_node_id, message.request)}
           [] message.request.type = "GetOrder" ->
                {handle_get_order_request(w, message.request_id, counterparty_node_id,
                                          message.request)}
    ELSE {Out(w, "Ok")}
handle_message(cfg, w, message, counterparty_node_id) ==
    IF message.kind = "Request"
    THEN CASE message.request.type = "GetInfo" ->
                {handle_get_info_request(cfg, w, message.request_id, counterparty_node_id)}
           [] message.request.type = "CreateOrder" ->
                {handle_create_order_request(cfg, w, message.request_id,
                                             counterparty_node_id, message.request)}
           [] message.request.type = "GetOrder" ->
                {handle_get_order_request(w, message.request_id, counterparty_node_id,
                                          message.request)}
    ELSE {Out(w, "Panic"), Out(w, "LightningError")}

RequestMessage(request_id, request) ==
    [kind |-> "Request", request_id |-> request_id, request |-> request]
ResponseMessage(request_id) ==
    [kind |-> "Response", request_id |-> request_id]

(***************************************************************************)
(* Spec: one caller, each call atomic                                      *)
(***************************************************************************)
Configs ==
    {[token |-> None, options_supported |-> o, website |-> Some(Website)] :
        o \in {Some(OptionsSupported), None}}

Threads == {"t1", "t2"}
NoCall == [op |-> NONE, request_id |-> NONE, counterparty_node_id |-> NONE, args |-> <<>>]
NoLocal == [ret |-> NONE, found |-> None]
FreshWorld == [per_peer_state |-> EmptyMap, pending_messages |-> <<>>, pending_events |-> <<>>]

Init ==
    /\ config \in Configs
    /\ per_peer_state = EmptyMap
    /\ pending_messages = <<>>
    /\ pending_events = <<>>
    /\ rw_readers = {}
    /\ rw_writer = NONE
    /\ mutex = [c \in Peers |-> NONE]
    /\ pc = [t \in Threads |-> "idle"]
    /\ call = [t \in Threads |-> NoCall]
    /\ local = [t \in Threads |-> NoLocal]

\* the queues are unbounded in the code; the model stops a call that would
\* grow them past the bound
Fits(w) == Len(w.pending_messages) + Len(w.pending_events) <= MaxQueued

Returns(out) ==
    /\ Fits(out.w)
    /\ per_peer_state' = out.w.per_peer_state
    /\ pending_messages' = out.w.pending_messages
    /\ pending_events' = out.w.pending_events
    /\ UNCHANGED <<config, threadVars>>

GetInfo ==
    \E c \in Peers : \E r \in RequestIdsOf(c) :
        \E out \in handle_message(config, World, RequestMessage(r, GetInfoRequest), c) :
            Returns(out)

CreateOrder ==
    \E c \in Peers : \E r \in RequestIdsOf(c) : \E order \in OrderParamsSet :
        \E out \in handle_message(config, World,
                                  RequestMessage(r, CreateOrderRequest(order)), c) :
            Returns(out)

GetOrder ==
    \E c \in Peers : \E r \in RequestIdsOf(c) : \E o \in OrderIds :
        \E out \in handle_message(config, World,
                                  RequestMessage(r, GetOrderRequest(o)), c) :
            Returns(out)

ResponseReceived ==
    \E c \in Peers : \E r \in RequestIdsOf(c) :
        \E out \in handle_message(config, World, ResponseMessage(r), c) :
            Returns(out)

SendPaymentDetails ==
    \E c \in Peers : \E r \in RequestIdsOf(c) : \E payment \in Payments,
       created_at \in Timestamps, expires_at \in Timestamps, order_id \in OrderIds :
        \E out \in {send_payment_details(World, r, c, payment, created_at, expires_at,
                                         order_id)} :
            Returns(out)

UpdateOrderStatus ==
    \E c \in Peers : \E r \in RequestIdsOf(c) : \E o \in OrderIds, s \in StatusInputs :
        \E out \in {update_order_status(World, r, c, o, s[1], s[2])} :
            Returns(out)

Next ==
    \/ GetInfo
    \/ CreateOrder
    \/ GetOrder
    \/ ResponseReceived
    \/ SendPaymentDetails
    \/ UpdateOrderStatus

Spec == Init /\ [][Next]_vars

(***************************************************************************)
(* What a state holds                                                      *)
(***************************************************************************)
Known(c) == c \in DOMAIN per_peer_state
OrdersOf(w, c) ==
    IF c \in DOMAIN w.per_peer_state
    THEN w.per_peer_state[c].outbound_channels_by_order_id ELSE EmptyMap
PendingOf(w, c) ==
    IF c \in DOMAIN w.per_peer_state
    THEN w.per_peer_state[c].pending_requests ELSE EmptyMap
InternalState(w, c, o) ==
    IF o \in DOMAIN OrdersOf(w, c) THEN OrdersOf(w, c)[o].state.tag ELSE "absent"
ValidOrders == {p \in OrderParamsSet : is_valid(p, OptionsSupported)}
InvalidOrders == OrderParamsSet \ ValidOrders
ConfigSet == config.options_supported # None
LastOf(q) == q[Len(q)]
\* what handle_message does with a GetOrder request
Poll(w, r, c, o) == handle_message(config, w, RequestMessage(r, GetOrderRequest(o)), c)
\* what handle_message does with a CreateOrder request
Create(w, r, c, order) ==
    handle_message(config, w, RequestMessage(r, CreateOrderRequest(order)), c)

(***************************************************************************)
(* C1: a GetOrder poll for an order that is in WaitingPayment returns an   *)
(* error, removes the order from the counterparty's order map, appends     *)
(* exactly one event, the Refund for that counterparty, order id and       *)
(* request id (so no CheckPaymentConfirmation), and enqueues no response.  *)
(***************************************************************************)
C1_SecondPollRefunds ==
    \A c \in Peers, r \in RequestIds, o \in OrderIds :
        InternalState(World, c, o) = "WaitingPayment" =>
            \A out \in Poll(World, r, c, o) :
                /\ out.ret = "LightningError"
                /\ o \notin DOMAIN OrdersOf(out.w, c)
                /\ out.w.pending_events = Append(pending_events, Refund(r, c, o))
                /\ out.w.pending_messages = pending_messages

\* the second poll has run: its Refund is the newest event, right after the
\* first poll's CheckPaymentConfirmation, and the order is gone
C1_Witness ==
    /\ Len(pending_events) >= 2
    /\ LastOf(pending_events).type = "Refund"
    /\ LET e == LastOf(pending_events)
           f == pending_events[Len(pending_events) - 1]
       IN  /\ f.type = "CheckPaymentConfirmation"
           /\ f.counterparty_node_id = e.counterparty_node_id
           /\ f.order_id = e.order_id
           /\ e.order_id \notin DOMAIN OrdersOf(World, e.counterparty_node_id)

(***************************************************************************)
(* C2: a GetOrder poll for an order that is in OrderCreated returns Ok,    *)
(* puts the order in WaitingPayment and keeps it in the map, records the   *)
(* request id as a pending GetOrder, appends exactly one event, the        *)
(* CheckPaymentConfirmation (so no Refund), and enqueues no response.      *)
(***************************************************************************)
C2_FirstPollAwaitsPayment ==
    \A c \in Peers, r \in RequestIds, o \in OrderIds :
        InternalState(World, c, o) = "OrderCreated" =>
            \A out \in Poll(World, r, c, o) :
                /\ out.ret = "Ok"
                /\ DOMAIN OrdersOf(out.w, c) = DOMAIN OrdersOf(World, c)
                /\ OrdersOf(out.w, c)[o] =
                       [OrdersOf(World, c)[o] EXCEPT !.state = WaitingPayment(o)]
                /\ MapGet(PendingOf(out.w, c), r) = Some(GetOrderRequest(o))
                /\ out.w.pending_events =
                       Append(pending_events, CheckPaymentConfirmation(r, c, o))
                /\ out.w.pending_messages = pending_messages

\* the first poll has run: its event is the newest, the order waits for
\* payment and the poll is pending
C2_Witness ==
    /\ Len(pending_events) >= 1
    /\ LET e == LastOf(pending_events)
       IN  /\ e.type = "CheckPaymentConfirmation"
           /\ InternalState(World, e.counterparty_node_id, e.order_id) = "WaitingPayment"
           /\ MapGet(PendingOf(World, e.counterparty_node_id), e.request_id)
                  = Some(GetOrderRequest(e.order_id))

(***************************************************************************)
(* C3: for a counterparty with no orders, a valid CreateOrder with request *)
(* id R followed by send_payment_details(R, counterparty, ...) leaves      *)
(* exactly one order in the counterparty's map, in OrderCreated, with no   *)
(* pending entry for R, and the two calls together enqueue exactly one     *)
(* message: the CreateOrder response for R to that counterparty, carrying  *)
(* the stored order id, status Created and no channel info.                *)
(***************************************************************************)
C3_CreateThenPaymentDetails ==
    \A c \in Peers, r \in RequestIds, order \in ValidOrders, payment \in Payments,
       created_at \in Timestamps, expires_at \in Timestamps, order_id \in OrderIds :
        (ConfigSet /\ DOMAIN OrdersOf(World, c) = {}) =>
            \A created \in Create(World, r, c, order) :
                LET out == send_payment_details(created.w, r, c, payment, created_at,
                                                expires_at, order_id)
                IN  /\ created.ret = "Ok"
                    /\ out.ret = "Ok"
                    /\ DOMAIN OrdersOf(out.w, c) = {order_id}
                    /\ OrdersOf(out.w, c)[order_id].state = OrderCreated(order_id)
                    /\ r \notin DOMAIN PendingOf(out.w, c)
                    /\ out.w.pending_messages =
                           Append(pending_messages,
                               [counterparty_node_id |-> c, request_id |-> r,
                                response |->
                                    [type |-> "CreateOrder", order |-> order,
                                     order_id |-> order_id, order_state |-> "Created",
                                     created_at |-> created_at, expires_at |-> expires_at,
                                     payment |-> payment, channel |-> None]])

\* both calls have run: the request's event is in the queue, its response is
\* the newest message and the only one a callback sent to the counterparty,
\* whose map holds that one order
C3_Witness ==
    /\ Len(pending_messages) >= 1
    /\ LET m == LastOf(pending_messages)
           c == m.counterparty_node_id
       IN  /\ m.response.type = "CreateOrder"
           /\ DOMAIN OrdersOf(World, c) = {m.response.order_id}
           /\ InternalState(World, c, m.response.order_id) = "OrderCreated"
           /\ m.request_id \notin DOMAIN PendingOf(World, c)
           /\ \E i \in DOMAIN pending_events :
                  pending_events[i] =
                      RequestForPaymentDetails(m.request_id, c, m.response.order)
           /\ \A i \in 1..(Len(pending_messages) - 1) :
                  pending_messages[i].counterparty_node_id = c =>
                      pending_messages[i].response.type \notin {"CreateOrder", "GetOrder"}

(***************************************************************************)
(* C4: a CreateOrder whose order fails is_valid against the supported      *)
(* options enqueues exactly one message, the CreateOrderError with the     *)
(* order-mismatch code to the requesting counterparty, returns an error    *)
(* and changes nothing else: the registry with every order and pending     *)
(* request, and the event queue, are as before.                            *)
(***************************************************************************)
C4_InvalidOrderRejected ==
    \A c \in Peers, r \in RequestIds, order \in InvalidOrders :
        ConfigSet =>
            \A out \in Create(World, r, c, order) :
                /\ out.ret = "LightningError"
                /\ out.w.pending_messages =
                       Append(pending_messages,
                           [counterparty_node_id |-> c, request_id |-> r,
                            response |->
                                [type |-> "CreateOrderError",
                                 code |-> LSPS1_CREATE_ORDER_REQUEST_ORDER_MISMATCH_ERROR_CODE,
                                 data |-> config.options_supported]])
                /\ out.w.per_peer_state = per_peer_state
                /\ out.w.pending_events = pending_events

\* the rejection has run: the error response is the newest message, and the
\* counterparty it went to has no registry entry and no event
C4_Witness ==
    /\ Len(pending_messages) >= 1
    /\ LET m == LastOf(pending_messages)
       IN  /\ m.response.type = "CreateOrderError"
           /\ m.response.code = LSPS1_CREATE_ORDER_REQUEST_ORDER_MISMATCH_ERROR_CODE
           /\ ~Known(m.counterparty_node_id)
           /\ \A i \in DOMAIN pending_events :
                  pending_events[i].counterparty_node_id # m.counterparty_node_id

(***************************************************************************)
(* C5: send_payment_details(R, C, ...) called while C has no pending       *)
(* CreateOrder request under R (whatever else is recorded under R) fails   *)
(* with a misuse error and leaves C's order map and pending-request map,   *)
(* the registry, the message queue and the event queue unchanged.          *)
(***************************************************************************)
HasPendingCreate(w, c, r) ==
    /\ r \in DOMAIN PendingOf(w, c)
    /\ PendingOf(w, c)[r].type = "CreateOrder"

C5_NoPendingCreateMutatesNothing ==
    \A c \in Peers, r \in RequestIds, payment \in Payments, created_at \in Timestamps,
       expires_at \in Timestamps, order_id \in OrderIds :
        ~HasPendingCreate(World, c, r) =>
            LET out == send_payment_details(World, r, c, payment, created_at,
                                            expires_at, order_id)
            IN  /\ out.ret = "APIMisuseError"
                /\ out.w = World

(***************************************************************************)
(* C6: once a response has been enqueued for request id R of counterparty  *)
(* C, by send_payment_details or by update_order_status, C's pending map   *)
(* holds no entry for R; in particular after a successful GetOrder poll    *)
(* with R followed by a successful update_order_status(R, C, order id,     *)
(* ...), R is not pending.                                                 *)
(***************************************************************************)
C6_ResponseClearsPending ==
    /\ \A c \in Peers, r \in RequestIds, payment \in Payments, created_at \in Timestamps,
          expires_at \in Timestamps, order_id \in OrderIds :
           LET out == send_payment_details(World, r, c, payment, created_at,
                                           expires_at, order_id)
           IN  out.ret = "Ok" => r \notin DOMAIN PendingOf(out.w, c)
    /\ \A c \in Peers, r \in RequestIds, o \in OrderIds, s \in StatusInputs :
           \A polled \in Poll(World, r, c, o) :
               polled.ret = "Ok" =>
                   LET out == update_order_status(polled.w, r, c, o, s[1], s[2])
                   IN  out.ret = "Ok" => r \notin DOMAIN PendingOf(out.w, c)

(***************************************************************************)
(* C9: for every CheckPaymentConfirmation event {R, C, O} emitted, a later *)
(* update_order_status(R, C, O, ...) succeeds and enqueues a GetOrder      *)
(* response for R to C.                                                    *)
(*   as claimed: whatever client requests arrived in between, further      *)
(*               GetOrder polls for O included                             *)
(*   as amended: provided no further GetOrder poll for O arrived from C in *)
(*               between                                                   *)
(* While O is in C's map every poll for it appends an event naming C and   *)
(* O, so "no further poll" reads: no later poll event names C and O.       *)
(***************************************************************************)
StatusAnswers(e, s) ==
    LET out == update_order_status(World, e.request_id, e.counterparty_node_id,
                                   e.order_id, s[1], s[2])
    IN  /\ out.ret = "Ok"
        /\ Len(out.w.pending_messages) = Len(pending_messages) + 1
        /\ LET m == LastOf(out.w.pending_messages)
           IN  /\ m.counterparty_node_id = e.counterparty_node_id
               /\ m.request_id = e.request_id
               /\ m.response.type = "GetOrder"
               /\ m.response.order_id = e.order_id

PollEventFor(e, c, o) ==
    /\ e.type \in {"CheckPaymentConfirmation", "Refund"}
    /\ e.counterparty_node_id = c
    /\ e.order_id = o

NoLaterPoll(i) ==
    \A j \in (i + 1)..Len(pending_events) :
        ~PollEventFor(pending_events[j], pending_events[i].counterparty_node_id,
                      pending_events[i].order_id)

C9_DeferredGetOrderAnsweredAlways ==
    \A i \in DOMAIN pending_events :
        pending_events[i].type = "CheckPaymentConfirmation" =>
            \A s \in StatusInputs : StatusAnswers(pending_events[i], s)

C9_DeferredGetOrderAnswered ==
    \A i \in DOMAIN pending_events :
        (pending_events[i].type = "CheckPaymentConfirmation" /\ NoLaterPoll(i)) =>
            \A s \in StatusInputs : StatusAnswers(pending_events[i], s)

\* a poll's event, no further poll of that order, and the poll's GetOrder
\* response enqueued
C9_Witness ==
    \E i \in DOMAIN pending_events :
        LET e == pending_events[i]
        IN  /\ e.type = "CheckPaymentConfirmation"
            /\ NoLaterPoll(i)
            /\ \E k \in DOMAIN pending_messages :
                   LET m == pending_messages[k]
                   IN  /\ m.counterparty_node_id = e.counterparty_node_id
                       /\ m.request_id = e.request_id
                       /\ m.response.type = "GetOrder"
                       /\ m.response.order_id = e.order_id

(***************************************************************************)
(* C10: for every RequestForPaymentDetails event emitted and not yet       *)
(* answered, send_payment_details called with the event's request id and   *)
(* counterparty succeeds and enqueues a CreateOrder response echoing the   *)
(* order the event carries, whatever client requests arrived in between    *)
(* (a second valid CreateOrder reusing the request id included).           *)
(***************************************************************************)
Unanswered(e) ==
    \A k \in DOMAIN pending_messages :
        ~ /\ pending_messages[k].counterparty_node_id = e.counterparty_node_id
          /\ pending_messages[k].request_id = e.request_id
          /\ pending_messages[k].response.type = "CreateOrder"

C10_DeferredCreateOrderAnswered ==
    \A i \in DOMAIN pending_events :
        LET e == pending_events[i]
        IN  (e.type = "RequestForPaymentDetails" /\ Unanswered(e)) =>
                \A payment \in Payments, created_at \in Timestamps,
                   expires_at \in Timestamps, order_id \in OrderIds :
                    LET out == send_payment_details(World, e.request_id,
                                   e.counterparty_node_id, payment, created_at,
                                   expires_at, order_id)
                    IN  /\ out.ret = "Ok"
                        /\ LastOf(out.w.pending_messages).response.type = "CreateOrder"
                        /\ LastOf(out.w.pending_messages).request_id = e.request_id
                        /\ LastOf(out.w.pending_messages).response.order = e.order

(***************************************************************************)
(* ConcSpec: two threads, each making one call, on a service that earlier  *)
(* calls have brought to one of PreparedWorlds. A call is split at its     *)
(* lock points: per_peer_state.write() / .read(), the counterparty's       *)
(* Mutex::lock(), and the return, where the guards are dropped.            *)
(***************************************************************************)
FullConfig == [token |-> None, options_supported |-> Some(OptionsSupported),
               website |-> Some(Website)]
SomeValidOrder == [channel_balance |-> OptionsSupported.min_channel_balance]

\* c1 has a pending CreateOrder
Prepared1 == handle_create_order_request(FullConfig, FreshWorld, "r1", "c1",
                                         CreateOrderRequest(SomeValidOrder)).w
\* c1 has order o1 in OrderCreated
Prepared2 == send_payment_details(Prepared1, "r1", "c1", "pay1", "t0", "t0", "o1").w
\* c1 has order o1 in WaitingPayment
Prepared3 == handle_get_order_request(Prepared2, "r2", "c1", GetOrderRequest("o1")).w
\* c2 is in the registry too
Prepared4 == handle_create_order_request(FullConfig, Prepared2, "r1", "c2",
                                         CreateOrderRequest(SomeValidOrder)).w
\* c1 has order o1 in WaitingPayment and a pending CreateOrder
Prepared5 == handle_create_order_request(FullConfig, Prepared3, "r1", "c1",
                                         CreateOrderRequest(SomeValidOrder)).w
PreparedWorlds == {FreshWorld, Prepared1, Prepared2, Prepared3, Prepared4, Prepared5}

ConcInit ==
    /\ config \in Configs
    /\ \E w \in (IF config = FullConfig THEN PreparedWorlds ELSE {FreshWorld}) :
        /\ per_peer_state = w.per_peer_state
        /\ pending_messages = w.pending_messages
        /\ pending_events = w.pending_events
    /\ rw_readers = {}
    /\ rw_writer = NONE
    /\ mutex = [c \in Peers |-> NONE]
    /\ pc = [t \in Threads |-> "idle"]
    /\ call = [t \in Threads |-> NoCall]
    /\ local = [t \in Threads |-> NoLocal]

Call(op, request_id, counterparty_node_id, args) ==
    [op |-> op, request_id |-> request_id,
     counterparty_node_id |-> counterparty_node_id, args |-> args]

\* RwLock and Mutex
CanRead == rw_writer = NONE
CanWrite == rw_writer = NONE /\ rw_readers = {}
MutexAlwaysAvailable(c) == TRUE
MutexAvailable(c) == mutex[c] = NONE

\* the thread's call returns ret; the guards it holds are dropped
ReturnKeepsMutex(t, ret) ==
    /\ pc' = [pc EXCEPT ![t] = "done"]
    /\ local' = [local EXCEPT ![t].ret = ret]
    /\ rw_readers' = rw_readers \ {t}
    /\ rw_writer' = IF rw_writer = t THEN NONE ELSE rw_writer
    /\ mutex' = mutex
Return(t, ret) ==
    /\ pc' = [pc EXCEPT ![t] = "done"]
    /\ local' = [local EXCEPT ![t].ret = ret]
    /\ rw_readers' = rw_readers \ {t}
    /\ rw_writer' = IF rw_writer = t THEN NONE ELSE rw_writer
    /\ mutex' = [c \in Peers |-> IF mutex[c] = t THEN NONE ELSE mutex[c]]

\* handle_get_info_request takes no lock
T_GetInfo(t) ==
    /\ pc[t] = "idle"
    /\ \E c \in Peers : \E r \in RequestIdsOf(c) :
        LET out == handle_get_info_request(config, World, r, c)
        IN  /\ call' = [call EXCEPT ![t] = Call("GetInfo", r, c, <<>>)]
            /\ pending_messages' = out.w.pending_messages
            /\ Return(t, out.ret)
    /\ UNCHANGED <<config, per_peer_state, pending_events>>

\* handle_message with a Response message, lines 441-447: no lock is taken
T_Response(t) ==
    /\ pc[t] = "idle"
    /\ \E c \in Peers : \E r \in RequestIdsOf(c) :
        \E out \in handle_message(config, World, ResponseMessage(r), c) :
            /\ call' = [call EXCEPT ![t] = Call("Response", r, c, <<>>)]
            /\ per_peer_state' = out.w.per_peer_state
            /\ pending_messages' = out.w.pending_messages
            /\ pending_events' = out.w.pending_events
            /\ Return(t, out.ret)
    /\ UNCHANGED config

\* handle_create_order_request, lines 193-213, up to per_peer_state.write()
T_CreateOrderBegin(t) ==
    /\ pc[t] = "idle"
    /\ \E c \in Peers : \E r \in RequestIdsOf(c) : \E order \in OrderParamsSet :
        /\ call' = [call EXCEPT ![t] = Call("CreateOrder", r, c, <<order>>)]
        /\ IF config.options_supported = None
           THEN Return(t, "Panic") /\ UNCHANGED pending_messages
           ELSE IF CreateOrderInvalid(config, CreateOrderRequest(order))
           THEN /\ pending_messages' = enqueue_response(pending_messages, c, r,
                                           CreateOrderErrorResponse(config))
                /\ Return(t, "LightningError")
           ELSE /\ pc' = [pc EXCEPT ![t] = "wait_write"]
                /\ UNCHANGED <<pending_messages, local, rw_readers, rw_writer, mutex>>
    /\ UNCHANGED <<config, per_peer_state, pending_events>>

\* line 215: per_peer_state.write()
T_CreateOrderWrite(t) ==
    /\ pc[t] = "wait_write"
    /\ CanWrite
    /\ rw_writer' = t
    /\ pc' = [pc EXCEPT ![t] = "write"]
    /\ UNCHANGED <<storeVars, rw_readers, mutex, call, local>>

\* lines 217-220: entry(..).or_insert(..), then the entry's lock()
T_CreateOrderEntry(t) ==
    /\ pc[t] = "write"
    /\ MutexAvailable(call[t].counterparty_node_id)
    /\ per_peer_state' = EntryOrInsert(per_peer_state, call[t].counterparty_node_id)
    /\ mutex' = [mutex EXCEPT ![call[t].counterparty_node_id] = t]
    /\ pc' = [pc EXCEPT ![t] = "co_locked"]
    /\ UNCHANGED <<config, pending_messages, pending_events, rw_readers, rw_writer,
                   call, local>>

\* lines 222-234
T_CreateOrderLocked(t) ==
    /\ pc[t] = "co_locked"
    /\ LET c == call[t].counterparty_node_id
           r == CreateOrderLocked(per_peer_state[c], pending_events, call[t].request_id,
                                  c, CreateOrderRequest(call[t].args[1]))
       IN  /\ per_peer_state' = [per_peer_state EXCEPT ![c] = r.peer]
           /\ pending_events' = r.events
           /\ Return(t, r.ret)
    /\ UNCHANGED <<config, pending_messages, call>>

\* the three calls that start with per_peer_state.read()
T_GetOrderBegin(t) ==
    /\ pc[t] = "idle"
    /\ \E c \in Peers : \E r \in RequestIdsOf(c) : \E o \in OrderIds :
        call' = [call EXCEPT ![t] = Call("GetOrder", r, c, <<o>>)]
    /\ pc' = [pc EXCEPT ![t] = "wait_read"]
    /\ UNCHANGED <<storeVars, rw_readers, rw_writer, mutex, local>>

T_PaymentDetailsBegin(t) ==
    /\ pc[t] = "idle"
    /\ \E c \in Peers : \E r \in RequestIdsOf(c) : \E payment \in Payments,
          created_at \in Timestamps, expires_at \in Timestamps, order_id \in OrderIds :
        call' = [call EXCEPT ![t] = Call("send_payment_details", r, c,
                                         <<payment, created_at, expires_at, order_id>>)]
    /\ pc' = [pc EXCEPT ![t] = "wait_read"]
    /\ UNCHANGED <<storeVars, rw_readers, rw_writer, mutex, local>>

T_OrderStatusBegin(t) ==
    /\ pc[t] = "idle"
    /\ \E c \in Peers : \E r \in RequestIdsOf(c) : \E o \in OrderIds, s \in StatusInputs :
        call' = [call EXCEPT ![t] = Call("update_order_status", r, c, <<o, s[1], s[2]>>)]
    /\ pc' = [pc EXCEPT ![t] = "wait_read"]
    /\ UNCHANGED <<storeVars, rw_readers, rw_writer, mutex, local>>

\* per_peer_state.read() and get(counterparty_node_id): lines 246-248,
\* 303-304, 364-366, with the None arms of lines 287-294, 341-346, 394-398
T_Read(t) ==
    /\ pc[t] = "wait_read"
    /\ CanRead
    /\ IF call[t].counterparty_node_id \in DOMAIN per_peer_state
       THEN /\ rw_readers' = rw_readers \cup {t}
            /\ pc' = [pc EXCEPT ![t] = "wait_mutex"]
            /\ UNCHANGED <<rw_writer, mutex, local>>
       ELSE Return(t, IF call[t].op = "GetOrder" THEN "LightningError"
                      ELSE "APIMisuseError")
    /\ UNCHANGED <<storeVars, call>>

\* inner_state_lock.lock(): lines 250, 306, 368; a GetOrder call goes on to
\* get_mut(&params.order_id), lines 308-310
T_Lock(t) ==
    /\ pc[t] = "wait_mutex"
    /\ MutexAvailable(call[t].counterparty_node_id)
    /\ mutex' = [mutex EXCEPT ![call[t].counterparty_node_id] = t]
    /\ pc' = [pc EXCEPT ![t] = "locked"]
    /\ local' = [local EXCEPT ![t].found =
                    IF call[t].op = "GetOrder"
                    THEN MapGet(per_peer_state[call[t].counterparty_node_id]
                                    .outbound_channels_by_order_id, call[t].args[1])
                    ELSE None]
    /\ UNCHANGED <<storeVars, rw_readers, rw_writer, call>>

\* handle_get_order_request, lines 311-349
T_GetOrderLocked(t) ==
    /\ pc[t] = "locked"
    /\ call[t].op = "GetOrder"
    /\ LET c == call[t].counterparty_node_id
           r == GetOrderCommit(per_peer_state[c], pending_events, call[t].request_id, c,
                               GetOrderRequest(call[t].args[1]), local[t].found)
       IN  /\ per_peer_state' = [per_peer_state EXCEPT ![c] = r.peer]
           /\ pending_events' = r.events
           /\ Return(t, r.ret)
    /\ UNCHANGED <<config, pending_messages, call>>

\* send_payment_details, lines 252-297
T_PaymentDetailsLocked(t) ==
    /\ pc[t] = "locked"
    /\ call[t].op = "send_payment_details"
    /\ LET c == call[t].counterparty_node_id
           a == call[t].args
           r == PaymentDetailsLocked(per_peer_state[c], pending_messages,
                                     call[t].request_id, c, a[1], a[2], a[3], a[4])
       IN  /\ per_peer_state' = [per_peer_state EXCEPT ![c] = r.peer]
           /\ pending_messages' = r.messages
           /\ Return(t, r.ret)
    /\ UNCHANGED <<config, pending_events, call>>

\* update_order_status, lines 370-400
T_OrderStatusLocked(t) ==
    /\ pc[t] = "locked"
    /\ call[t].op = "update_order_status"
    /\ LET c == call[t].counterparty_node_id
           a == call[t].args
           r == OrderStatusLocked(per_peer_state[c], pending_messages,
                                  call[t].request_id, c, a[1], a[2], a[3])
       IN  /\ per_peer_state' = [per_peer_state EXCEPT ![c] = r.peer]
           /\ pending_messages' = r.messages
           /\ Return(t, r.ret)
    /\ UNCHANGED <<config, pending_events, call>>

ConcNext ==
    \E t \in Threads :
        \/ T_GetInfo(t)
        \/ T_Response(t)
        \/ T_CreateOrderBegin(t)
        \/ T_CreateOrderWrite(t)
        \/ T_CreateOrderEntry(t)
        \/ T_CreateOrderLocked(t)
        \/ T_GetOrderBegin(t)
        \/ T_PaymentDetailsBegin(t)
        \/ T_OrderStatusBegin(t)
        \/ T_Read(t)
        \/ T_Lock(t)
        \/ T_GetOrderLocked(t)
        \/ T_PaymentDetailsLocked(t)
        \/ T_OrderStatusLocked(t)

ConcSpec == ConcInit /\ [][ConcNext]_vars

(***************************************************************************)
(* C7: two GetOrder polls for the same order of the same counterparty,     *)
(* run by two threads under any interleaving of their steps, never both    *)
(* return Ok; when one of them found the order in OrderCreated, exactly    *)
(* one poll made the transition and emitted the CheckPaymentConfirmation,  *)
(* and the other failed.                                                   *)
(***************************************************************************)
PollOf(t, c, o) ==
    /\ pc[t] = "done"
    /\ call[t].op = "GetOrder"
    /\ call[t].counterparty_node_id = c
    /\ call[t].args[1] = o

FoundCreated(t) ==
    local[t].found # None /\ Unwrap(local[t].found).state.tag = "OrderCreated"

ConfirmationsFor(c, o) ==
    {i \in DOMAIN pending_events :
        /\ pending_events[i].type = "CheckPaymentConfirmation"
        /\ pending_events[i].counterparty_node_id = c
        /\ pending_events[i].order_id = o}

C7_ConcurrentPollsSerialize ==
    \A t \in Threads, u \in Threads, c \in Peers, o \in OrderIds :
        (t # u /\ PollOf(t, c, o) /\ PollOf(u, c, o)) =>
            /\ ~(local[t].ret = "Ok" /\ local[u].ret = "Ok")
            /\ FoundCreated(t) =>
                   /\ local[t].ret = "Ok"
                   /\ local[u].ret = "LightningError"
                   /\ ~FoundCreated(u)
                   /\ \E i \in DOMAIN pending_events :
                          /\ ConfirmationsFor(c, o) = {i}
                          /\ pending_events[i].request_id = call[t].request_id

\* both polls have returned: one made the transition, the other found the
\* order in WaitingPayment and failed
C7_Witness ==
    \E t \in Threads, u \in Threads, c \in Peers, o \in OrderIds :
        /\ t # u
        /\ PollOf(t, c, o)
        /\ PollOf(u, c, o)
        /\ FoundCreated(t)
        /\ local[t].ret = "Ok"
        /\ local[u].found # None
        /\ Unwrap(local[u].found).state.tag = "WaitingPayment"
        /\ local[u].ret = "LightningError"

(***************************************************************************)
(* C8: in no reachable state is a call for counterparty A waiting for a    *)
(* lock that a call in progress for a different counterparty B holds.      *)
(***************************************************************************)
\* thread t is at a lock acquisition that thread u's holding prevents
WaitsFor(t, u) ==
    \/ pc[t] = "wait_read" /\ rw_writer = u
    \/ pc[t] = "wait_write" /\ (rw_writer = u \/ u \in rw_readers)
    \/ pc[t] \in {"wait_mutex", "write"} /\ mutex[call[t].counterparty_node_id] = u

C8_NoCrossPeerBlocking ==
    \A t \in Threads, u \in Threads :
        (t # u /\ call[t].counterparty_node_id # call[u].counterparty_node_id) =>
            ~WaitsFor(t, u)

(***************************************************************************)
(* C11: as long as no order id has been generated twice for a              *)
(* counterparty, at most one CheckPaymentConfirmation event has been       *)
(* emitted for a given (counterparty, order id), and once the event is     *)
(* there the order is no longer in OrderCreated.                           *)
(* The message queue keeps every CreateOrder response, so an order id was  *)
(* generated twice for a counterparty when two of them carry it.           *)
(***************************************************************************)
CreatedOrders(c, o) ==
    {k \in DOMAIN pending_messages :
        /\ pending_messages[k].counterparty_node_id = c
        /\ pending_messages[k].response.type = "CreateOrder"
        /\ pending_messages[k].response.order_id = o}

OrderIdReused(c, o) == Cardinality(CreatedOrders(c, o)) > 1

C11_PaymentWindowOnce ==
    \A c \in Peers, o \in OrderIds :
        ~OrderIdReused(c, o) =>
            /\ Cardinality(ConfirmationsFor(c, o)) <= 1
            /\ ConfirmationsFor(c, o) # {} => InternalState(World, c, o) # "OrderCreated"

\* an order created once, polled twice: the first poll's event is the only
\* CheckPaymentConfirmation for it, the second poll's Refund follows it
C11_Witness ==
    \E c \in Peers, o \in OrderIds :
        /\ Cardinality(CreatedOrders(c, o)) = 1
        /\ Cardinality(ConfirmationsFor(c, o)) = 1
        /\ \E i \in ConfirmationsFor(c, o) : \E j \in DOMAIN pending_events :
               /\ j > i
               /\ pending_events[j].type = "Refund"
               /\ pending_events[j].counterparty_node_id = c
               /\ pending_events[j].order_id = o

(***************************************************************************)
(* C12: a successful update_order_status(R, C, O, status, channel)         *)
(* enqueues exactly one message, the GetOrder response for R to C that     *)
(* carries the stored order's params, created_at, expires_at and payment   *)
(* with the caller's status and channel info; it leaves the registry's     *)
(* counterparties, every order map (the order's internal state included)   *)
(* and the event queue as they were; and the same call made again          *)
(* succeeds again with the same effect.                                    *)
(***************************************************************************)
StatusResponse(w, r, c, o, s) ==
    [counterparty_node_id |-> c, request_id |-> r,
     response |-> [type |-> "GetOrder", order |-> OrdersOf(w, c)[o].config.order,
                   order_id |-> o, order_state |-> s[1],
                   created_at |-> OrdersOf(w, c)[o].config.created_at,
                   expires_at |-> OrdersOf(w, c)[o].config.expires_at,
                   payment |-> OrdersOf(w, c)[o].config.payment, channel |-> s[2]]]

StatusEffect(before, out, r, c, o, s) ==
    /\ out.ret = "Ok"
    /\ out.w.pending_messages =
           Append(before.pending_messages, StatusResponse(before, r, c, o, s))
    /\ DOMAIN out.w.per_peer_state = DOMAIN before.per_peer_state
    /\ \A d \in Peers : OrdersOf(out.w, d) = OrdersOf(before, d)
    /\ out.w.pending_events = before.pending_events

C12_StatusEchoesAndRepeats ==
    \A c \in Peers, r \in RequestIds, o \in OrderIds, s \in StatusInputs :
        LET out == update_order_status(World, r, c, o, s[1], s[2])
            again == update_order_status(out.w, r, c, o, s[1], s[2])
        IN  out.ret = "Ok" =>
                /\ StatusEffect(World, out, r, c, o, s)
                /\ StatusEffect(out.w, again, r, c, o, s)

\* two threads have made the same call and both returned Ok: the two newest
\* messages are the same GetOrder response, echoing the order that is still
\* in the map
C12_Witness ==
    \E t \in Threads, u \in Threads :
        /\ t # u
        /\ pc[t] = "done" /\ pc[u] = "done"
        /\ call[t].op = "update_order_status" /\ call[u] = call[t]
        /\ local[t].ret = "Ok" /\ local[u].ret = "Ok"
        /\ Len(pending_messages) >= 2
        /\ LET m == LastOf(pending_messages)
               c == call[t].counterparty_node_id
               o == call[t].args[1]
           IN  /\ pending_messages[Len(pending_messages) - 1] = m
               /\ o \in DOMAIN OrdersOf(World, c)
               /\ m = StatusResponse(World, call[t].request_id, c, o,
                                     <<call[t].args[2], call[t].args[3]>>)

(***************************************************************************)
(* C13: the step at which a send_payment_details or update_order_status    *)
(* call looks up a counterparty that has no registry entry, and the step   *)
(* at which an update_order_status call looks up an order id that is not   *)
(* in the counterparty's order map, ends the call with a misuse error and  *)
(* changes nothing: the registry with every order map and pending-request  *)
(* map, the message queue and the event queue are as before the step.      *)
(***************************************************************************)
\* thread t's call of op is at the lookup of its counterparty, who is unknown
LooksUpUnknownPeer(t, ops) ==
    /\ pc[t] = "wait_read"
    /\ call[t].op \in ops
    /\ call[t].counterparty_node_id \notin DOMAIN per_peer_state

\* thread t's update_order_status holds the lock and its order id is not there
LooksUpUnknownOrder(t) ==
    /\ pc[t] = "locked"
    /\ call[t].op = "update_order_status"
    /\ call[t].args[1] \notin DOMAIN OrdersOf(World, call[t].counterparty_node_id)

\* thread t takes a step that ends its call with ret and changes no state
FailsUnchanged(t, ret) ==
    /\ pc'[t] = "done"
    /\ local'[t].ret = ret
    /\ per_peer_state' = per_peer_state
    /\ pending_messages' = pending_messages
    /\ pending_events' = pending_events

C13_MisuseMutatesNothing ==
    [][\A t \in Threads :
          ( /\ pc'[t] # pc[t]
            /\ \/ LooksUpUnknownPeer(t, {"send_payment_details", "update_order_status"})
               \/ LooksUpUnknownOrder(t) )
          => FailsUnchanged(t, "APIMisuseError")]_vars

\* thread t's call of op for an unknown counterparty has returned ret
ReturnedForUnknownPeer(t, op, ret) ==
    /\ pc[t] = "done"
    /\ call[t].op = op
    /\ call[t].counterparty_node_id \notin DOMAIN per_peer_state
    /\ local[t].ret = ret

\* a send_payment_details for an unknown counterparty and an
\* update_order_status for a known counterparty's unknown order have both
\* returned the misuse error, and the service is as it was before them
C13_Witness ==
    \E t \in Threads, u \in Threads :
        /\ ReturnedForUnknownPeer(t, "send_payment_details", "APIMisuseError")
        /\ pc[u] = "done"
        /\ call[u].op = "update_order_status"
        /\ call[u].counterparty_node_id \in DOMAIN per_peer_state
        /\ call[u].args[1] \notin DOMAIN OrdersOf(World, call[u].counterparty_node_id)
        /\ local[u].ret = "APIMisuseError"
        /\ World \in PreparedWorlds
        /\ per_peer_state # EmptyMap

(***************************************************************************)
(* C14: the step at which a GetOrder request looks up a counterparty that  *)
(* has no registry entry, and the step at which it commits after finding   *)
(* no order under the requested id, returns an error and changes nothing:  *)
(* no registry entry, order or pending request is created and no event or  *)
(* response is enqueued.                                                   *)
(***************************************************************************)
C14_UnknownGetOrderRejected ==
    [][\A t \in Threads :
          ( /\ pc'[t] # pc[t]
            /\ \/ LooksUpUnknownPeer(t, {"GetOrder"})
               \/ /\ pc[t] = "locked"
                  /\ call[t].op = "GetOrder"
                  /\ local[t].found = None )
          => FailsUnchanged(t, "LightningError")]_vars

\* a GetOrder from an unknown counterparty and a GetOrder for an order id a
\* known counterparty does not have have both been rejected, and the service
\* is as it was before them
C14_Witness ==
    \E t \in Threads, u \in Threads :
        /\ ReturnedForUnknownPeer(t, "GetOrder", "LightningError")
        /\ pc[u] = "done"
        /\ call[u].op = "GetOrder"
        /\ call[u].counterparty_node_id \in DOMAIN per_peer_state
        /\ local[u].found = None
        /\ local[u].ret = "LightningError"
        /\ World \in PreparedWorlds
        /\ per_peer_state # EmptyMap

(***************************************************************************)
(* C15: when the supported-options configuration is absent, a GetInfo      *)
(* request given to handle_message returns an error to the caller, with    *)
(* no response enqueued and no state changed, and a CreateOrder request    *)
(* returns an error too; neither aborts.                                   *)
(***************************************************************************)
C15_MissingConfigReturnsError ==
    ~ConfigSet =>
        \A c \in Peers, r \in RequestIds :
            /\ \A out \in handle_message(config, World, RequestMessage(r, GetInfoRequest), c) :
                   out.ret = "LightningError" /\ out.w = World
            /\ \A order \in OrderParamsSet : \A out \in Create(World, r, c, order) :
                   out.ret = "LightningError"

(***************************************************************************)
(* C16: the step in which handle_message is given a Response message       *)
(* changes no state (the registry with every order map and pending-request *)
(* map, the message queue and the event queue are as before) and           *)
(*   as claimed: returns an error to the caller                            *)
(*   as amended: returns an error to the caller or, in a build with debug  *)
(*               assertions, panics at the debug_assert; it never returns  *)
(*               Ok                                                        *)
(***************************************************************************)
ReceivesResponse(t) == pc[t] = "idle" /\ call'[t].op = "Response"

C16_ResponseReturnsError ==
    [][\A t \in Threads :
          ReceivesResponse(t) => FailsUnchanged(t, "LightningError")]_vars

C16_ResponseRejected ==
    [][\A t \in Threads :
          ReceivesResponse(t) =>
              \/ FailsUnchanged(t, "LightningError")
              \/ FailsUnchanged(t, "Panic")]_vars

\* two Response messages have been handled on a service that holds an order:
\* one call returned the error, the other panicked, and nothing has changed
C16_Witness ==
    \E t \in Threads, u \in Threads :
        /\ pc[t] = "done" /\ call[t].op = "Response" /\ local[t].ret = "LightningError"
        /\ pc[u] = "done" /\ call[u].op = "Response" /\ local[u].ret = "Panic"
        /\ World \in PreparedWorlds
        /\ per_peer_state # EmptyMap

(***************************************************************************)
(* C17: in every step, an order record that is stored under the same       *)
(* (counterparty, order id) before and after and whose internal state      *)
(* differs went from OrderCreated to WaitingPayment, unless the step       *)
(* generated the order id a second time for the counterparty; an order id  *)
(* that has had its CheckPaymentConfirmation (its record reached           *)
(* WaitingPayment) has a record in OrderCreated after the step only if the *)
(* id has been generated twice; and a failed awaiting_payment on a stored  *)
(* record, or on any state value, leaves it as it was.                     *)
(***************************************************************************)
StateValues == {OrderCreated(o) : o \in OrderIds} \cup {WaitingPayment(o) : o \in OrderIds} \cup {Ready}

FailedAwaitingPaymentKeepsState ==
    /\ \A state \in StateValues :
           ~StateAwaitingPayment(state).ok => StateAwaitingPayment(state).state = state
    /\ \A state \in StateValues :
           StateAwaitingPayment(state).ok <=> state.tag = "OrderCreated"
    /\ \A c \in Peers, o \in OrderIds :
           o \in DOMAIN OrdersOf(World, c) =>
               LET r == ChannelAwaitingPayment(OrdersOf(World, c)[o])
               IN  ~r.ok => r.channel = OrdersOf(World, c)[o]

C17_StateOnlyForward ==
    [][/\ per_peer_state' # per_peer_state =>
            \A c \in Peers, o \in OrderIds :
                /\ ( /\ o \in DOMAIN OrdersOf(World, c)
                     /\ o \in DOMAIN OrdersOf(World', c)
                     /\ OrdersOf(World', c)[o].state # OrdersOf(World, c)[o].state
                     /\ ~OrderIdReused(c, o)' )
                   => /\ OrdersOf(World, c)[o].state = OrderCreated(o)
                      /\ OrdersOf(World', c)[o].state = WaitingPayment(o)
                /\ ( /\ ConfirmationsFor(c, o) # {}
                     /\ InternalState(World, c, o) # "OrderCreated"
                     /\ InternalState(World', c, o) = "OrderCreated" )
                   => OrderIdReused(c, o)'
       /\ FailedAwaitingPaymentKeepsState]_vars

\* a poll found its order in OrderCreated and returned Ok: the record, of an
\* order id generated once, is in WaitingPayment and its
\* CheckPaymentConfirmation is in the queue
C17_Witness ==
    \E t \in Threads :
        /\ pc[t] = "done" /\ call[t].op = "GetOrder" /\ local[t].ret = "Ok"
        /\ FoundCreated(t)
        /\ LET c == call[t].counterparty_node_id
               o == call[t].args[1]
           IN  /\ Cardinality(CreatedOrders(c, o)) = 1
               /\ ConfirmationsFor(c, o) # {}
               /\ o \in DOMAIN OrdersOf(World, c)
               /\ OrdersOf(World, c)[o].state = WaitingPayment(o)

(***************************************************************************)
(* C18: in every reachable state every order record in every               *)
(* counterparty's order map is in OrderCreated or WaitingPayment (of its   *)
(* own order id); none is in Ready.                                        *)
(***************************************************************************)
C18_NeverReady ==
    \A c \in DOMAIN per_peer_state :
        \A o \in DOMAIN per_peer_state[c].outbound_channels_by_order_id :
            LET state == per_peer_state[c].outbound_channels_by_order_id[o].state
            IN  /\ state \in {OrderCreated(o), WaitingPayment(o)}
                /\ state # Ready

\* handle_message, send_payment_details and update_order_status have all
\* acted on one order: it was created, polled and answered, and its record
\* is in WaitingPayment
C18_Witness ==
    \E c \in Peers, o \in OrderIds :
        /\ InternalState(World, c, o) = "WaitingPayment"
        /\ \E k \in DOMAIN pending_messages :
               /\ pending_messages[k].counterparty_node_id = c
               /\ pending_messages[k].response.type = "GetOrder"
               /\ pending_messages[k].response.order_id = o

(***************************************************************************)
(* C19: every step of a call made for counterparty A (a GetInfo,           *)
(* CreateOrder or GetOrder request or a Response given to handle_message,  *)
(* send_payment_details, update_order_status), with any arguments and      *)
(* while any other call is in progress, leaves every other counterparty B  *)
(* as it was: B is in the registry after iff it was before, with the same  *)
(* order map and the same pending-request map; the queues keep what they   *)
(* held, and every message and event the step adds names A as the          *)
(* counterparty.                                                           *)
(***************************************************************************)
\* queue after holds queue before followed by entries that all name a
AddsOnlyFor(before, after, a) ==
    /\ Len(after) >= Len(before)
    /\ \A i \in 1..Len(after) :
           IF i <= Len(before) THEN after[i] = before[i]
           ELSE after[i].counterparty_node_id = a

C19_NoCrossPeerInterference ==
    [][\A t \in Threads :
          pc'[t] # pc[t] =>
              /\ \A b \in Peers \ {call'[t].counterparty_node_id} :
                     /\ b \in DOMAIN per_peer_state' <=> b \in DOMAIN per_peer_state
                     /\ OrdersOf(World', b) = OrdersOf(World, b)
                     /\ PendingOf(World', b) = PendingOf(World, b)
              /\ AddsOnlyFor(pending_messages, pending_messages',
                             call'[t].counterparty_node_id)
              /\ AddsOnlyFor(pending_events, pending_events',
                             call'[t].counterparty_node_id)]_vars

\* a CreateOrder for one counterparty and a GetOrder poll for another
\* counterparty's order have both returned Ok: the first counterparty has
\* its pending request and no order, the second its order, now polled
C19_Witness ==
    \E t \in Threads, u \in Threads :
        /\ call[t].counterparty_node_id # call[u].counterparty_node_id
        /\ pc[t] = "done" /\ call[t].op = "CreateOrder" /\ local[t].ret = "Ok"
        /\ pc[u] = "done" /\ call[u].op = "GetOrder" /\ local[u].ret = "Ok"
        /\ PendingOf(World, call[t].counterparty_node_id) # EmptyMap
        /\ OrdersOf(World, call[t].counterparty_node_id) = EmptyMap
        /\ InternalState(World, call[u].counterparty_node_id, call[u].args[1])
               = "WaitingPayment"

(***************************************************************************)
(* FairConcSpec: ConcSpec with a scheduler that lets a started call take   *)
(* its next step when that step stays possible: a lock that stays free is  *)
(* acquired, a call that holds its locks runs on to its return. Starting a *)
(* call is left to the callers.                                            *)
(***************************************************************************)
ThreadStep(t) ==
    \/ T_CreateOrderWrite(t)
    \/ T_CreateOrderEntry(t)
    \/ T_CreateOrderLocked(t)
    \/ T_Read(t)
    \/ T_Lock(t)
    \/ T_GetOrderLocked(t)
    \/ T_PaymentDetailsLocked(t)
    \/ T_OrderStatusLocked(t)

FairConcSpec == ConcSpec /\ \A t \in Threads : WF_vars(ThreadStep(t))

(***************************************************************************)
(* C20: every call takes the registry lock before a counterparty's lock,   *)
(* holds at most one counterparty's lock and only while it holds the       *)
(* registry lock, and a call that has returned holds no lock; so, under    *)
(* fair scheduling, every started call eventually returns.                 *)
(***************************************************************************)
MutexesOf(t) == {c \in Peers : mutex[c] = t}
HoldsRegistry(t) == t \in rw_readers \/ rw_writer = t

LockDiscipline ==
    /\ \A t \in Threads :
           /\ Cardinality(MutexesOf(t)) <= 1
           /\ MutexesOf(t) # {} => HoldsRegistry(t)
           /\ pc[t] = "wait_mutex" => t \in rw_readers
           /\ pc[t] = "write" => rw_writer = t
           /\ pc[t] \in {"idle", "done"} => (MutexesOf(t) = {} /\ ~HoldsRegistry(t))
    /\ rw_writer # NONE => rw_readers = {}

C20_DeadlockFree ==
    /\ []LockDiscipline
    /\ \A t \in Threads : (pc[t] # "idle") ~> (pc[t] = "done")

\* two calls for the same counterparty, one of them the CreateOrder that
\* takes the registry in write mode, have both returned Ok and every lock
\* is free
C20_Witness ==
    \E t \in Threads, u \in Threads :
        /\ pc[t] = "done" /\ call[t].op = "CreateOrder" /\ local[t].ret = "Ok"
        /\ pc[u] = "done" /\ call[u].op \in {"GetOrder", "update_order_status"}
        /\ local[u].ret = "Ok"
        /\ call[u].counterparty_node_id = call[t].counterparty_node_id
        /\ rw_readers = {} /\ rw_writer = NONE
        /\ \A c \in Peers : mutex[c] = NONE

====
